---- MODULE Spec2Model ----
(***************************************************************************)
(* Model of src/src/mdx15_print_gerber.py: the G-code to RML-1 converter   *)
(* (GCode2RmlConverter) with its backlash compensation and height          *)
(* correction.                                                             *)
(*                                                                         *)
(* Numbers.  The program computes in floats; the model computes in exact   *)
(* fixed point.  One model unit is 0.001 device step (the program's        *)
(* epsilon, taken in steps), so 1 step = 1000 units and 1 mm = 40 steps =  *)
(* 40000 units.  Tracked coordinates (X, Y, Z, last_*, displacements) are  *)
(* lengths in model units; compensation offsets, backlash and xy offsets   *)
(* are whole device steps; heights of the leveling data are whole ranks.   *)
(* Numbers read from the toolpath are given in thousandths of the input    *)
(* unit.  Quotients are kept as exact fractions <<num, den>> and rounded   *)
(* where the program formats them.                                         *)
(***************************************************************************)
EXTENDS Integers, Sequences, FiniteSets, TLC

\* ------------------------------------------------------------- constants

\* epsilon = 0.001 (of a step in the grid search, of a mm for displacements)
epsilon == 1
\* outputScale = 1 / 0.025 : device steps per mm
outputScale == 40
\* model units per device step (1 / epsilon)
UnitsPerStep == 1000 * epsilon
\* epsilon taken in mm, in model units
epsilonMm == outputScale * epsilon
\* inputConversionFactor, in model units per thousandth of an input unit:
\* 1.0 (mm) and 25.4 (inch)
FactorMm == 40
FactorInch == 1016
\* the rapid feed 'f = 16.0', in hundredths
FastFeed == 1600

\* ModelaZeroControl: the limits of the table and the jog increments, in
\* steps, and the z offset run() starts with
X_MAX == 6096
Y_MAX == 4064
XY_INCREMENTS == 1
XY_INCREMENTS_LARGE == 100
Z_INCREMENTS == 1
Z_INCREMENTS_MED == 10
Z_INCREMENTS_LARGE == 100
Z_DEFAULT_OFFSET == -1300
\* getAutolevelingData(self, cam, steps=1, heightpoints=50)
heightpoints == 50

\* ---------------------------------------------------------------- bounds

\* lines read from one toolpath file
MaxLines == 3
\* moves made over one height grid
MaxGridMoves == 1
\* moves made with backlash compensation and a surface correction
MaxLevelMoves == 3
\* keys counted in the key loop of the calibration controller
MaxKeys == 3
\* keys read before an autolevel scan; the count of keys stops here
MaxScanKeys == 5
\* frames of the microscope counted; later frames leave the smoothed
\* variance where it is
MaxFrames == 1
\* calls of getFocusValue made by the main thread
MaxSamples == 1

\* numbers a toolpath line carries for an axis, in thousandths of the
\* unit: 1 is a displacement of epsilon, 1000 is one unit
AxisVals == {0, 1, 1000}
\* feed rates a toolpath line carries (units per minute)
FeedVals == {90}
\* dwell times
DwellVals == {250}
\* configured backlash per axis, in steps
BacklashVals == {0, 3}
\* the xy offset handed to the converter (the zero captured by calibration)
OffsetVals == {7}
\* feedspeedfactor
FeedFactorVals == {2}

Abs(v) == IF v < 0 THEN -v ELSE v

Sign(v) == IF v < 0 THEN -1 ELSE IF v > 0 THEN 1 ELSE 0

\* 'a * b < 0' without forming the product
Opposite(a, b) == Sign(a) * Sign(b) < 0

RECURSIVE GCD(_, _)
GCD(a, b) == IF b = 0 THEN a ELSE GCD(b, a % b)

\* Exact fractions <<num, den>>, den > 0, in lowest terms: the value of a
\* float expression computed without rounding.
Frac(n, d) ==
    LET g == GCD(Abs(n), Abs(d))
        s == IF d < 0 THEN -1 ELSE 1
    IN  <<s * (n \div g), s * (d \div g)>>

FInt(n) == <<n, 1>>

FAdd(f, g) ==
    LET k == GCD(f[2], g[2])
    IN  Frac(f[1] * (g[2] \div k) + g[1] * (f[2] \div k), (f[2] \div k) * g[2])

FNeg(f) == <<-f[1], f[2]>>

FSub(f, g) == FAdd(f, FNeg(g))

FMul(f, g) ==
    LET a == Frac(f[1], g[2])
        b == Frac(g[1], f[2])
    IN  <<a[1] * b[1], a[2] * b[2]>>

FLeq(f, g) == FSub(f, g)[1] <= 0

\* floor of p / q for q > 0
FloorDiv(p, q) == IF p >= 0 THEN p \div q ELSE -((-p + q - 1) \div q)

\* '{:.0f}'.format(p / q): the nearest integer, a tie going to the even one
RoundHalfEvenPos(p, q) ==
    LET f == FloorDiv(p, q)
        r == p - f * q
    IN  IF 2 * r < q THEN f
        ELSE IF 2 * r > q THEN f + 1
        ELSE IF f % 2 = 0 THEN f ELSE f + 1

RoundHalfEven(p, q) == IF q < 0 THEN RoundHalfEvenPos(-p, -q) ELSE RoundHalfEvenPos(p, q)

\* ----------------------------------------------------------- input lines

\* A toolpath line after rstrip, by the form digestLine distinguishes.
\*   move: 'G0<mode>' then, if sp, white space and the words (letter, number)
\*   num = <<>> stands for text float() / int() cannot parse
Move(m, sp, w) == [k |-> "move", mode |-> m, sp |-> sp, words |-> w]

\* the words of a move: one axis, or all three carrying the same number
MoveWords ==
    {<< <<"X", v>> >> : v \in AxisVals}
    \cup {<< <<a, v>> >> : a \in {"Y", "Z"}, v \in AxisVals \ {1}}
    \cup {<< <<"X", v>>, <<"Y", v>>, <<"Z", v>> >> : v \in AxisVals \ {1}}

MoveLines == {Move(m, TRUE, w) : m \in {"0", "1"}, w \in MoveWords}

\* moves outside the grammar 'X.. Y.. Z..': no separator, words out of
\* order, an unknown word
OddMoveLines ==
    {Move("0", FALSE, << <<"X", 1000>> >>),
     Move("1", TRUE, << <<"Y", 1000>>, <<"X", 1000>> >>),
     Move("0", TRUE, << <<"X", 1000>>, <<"Q", 1000>> >>)}

NumLines ==
    {[k |-> "G01 F", num |-> <<v>>] : v \in FeedVals}
    \cup {[k |-> "F", num |-> n] : n \in {<<>>} \cup {<<v>> : v \in FeedVals}}
    \cup {[k |-> "G4 P", num |-> <<v>>] : v \in DwellVals}

PlainLines ==
    {[k |-> kk] : kk \in {"", "(", "G20", "G21", "G90", "G94", "M03", "M05", "other"}}

Lines == PlainLines \cup NumLines \cup MoveLines \cup OddMoveLines

\* Height grids (leveling data): levelingData[i][j] = <<x, y, height>>, x
\* and y in model units, x growing with i and y with j.
MakeGrid(xs, ys, hs) ==
    [i \in 1..Len(xs) |-> [j \in 1..Len(ys) |-> <<xs[i], ys[j], hs[i][j]>>]]

\* heights at the vertices of a 2 x 2 grid
HeightVals == {0, 1, 4}

\* 2 x 2 grids of one cell, 1 mm wide and 1 or 2 mm high
Grids2 ==
    {MakeGrid(<<0, 40000>>, ys, <<<<a, b>>, <<c, d>>>>) :
        ys \in {<<0, 40000>>, <<0, 80000>>},
        a \in {0}, b \in HeightVals, c \in HeightVals \ {0}, d \in HeightVals \ {1}}

\* 3 x 3 grids, the cells 1 mm wide or of unequal width
Grids3 ==
    {MakeGrid(xs, <<0, 40000, 80000>>,
              [i \in 1..3 |-> [j \in 1..3 |->
                  a * (i - 1) + b * (j - 1) * (j - 1) + c * (i - 1) * (j - 1)]]) :
        xs \in {<<0, 40000, 80000>>, <<0, 40000, 120000>>},
        a \in {0, 1}, b \in {0, 1}, c \in {0, 3}}

Grids == Grids2 \cup Grids3

\* the moves of a toolpath run over a grid: X and Y from below the first
\* grid line to beyond the last, on the grid lines and half way between
GridAxisVals == {-500, 0, 500, 1000, 1500, 2000, 3000}

GridLines ==
    {Move("0", TRUE, << <<"X", v>>, <<"Y", w>> >>) : v \in GridAxisVals, w \in GridAxisVals}

\* a grid rising along x, for the runs with backlash compensation
LevelGrids == {MakeGrid(<<0, 40000>>, <<0, 40000>>, <<<<0, 0>>, <<4, 4>>>>)}

\* manual leveling points (x, y, z in steps): three spanning a plane, three
\* on one line, and two only
Planes ==
    {<< <<0, 0, 0>>, <<40, 0, 4>>, <<0, 40, 8>> >>,
     << <<0, 0, 0>>, <<100, 0, 5>>, <<200, 0, 7>> >>,
     << <<0, 0, 0>>, <<100, 0, 5>> >>}

\* the moves of those runs: to 0 or 1 unit in X, Y or Z
LevelAxisVals == {0, 1000}

LevelLines ==
    {Move("0", TRUE, << <<a, v>> >>) : a \in {"X", "Y", "Z"}, v \in LevelAxisVals}
    \cup {Move("0", TRUE, << <<"X", v>>, <<"Y", w>> >>) :
             v \in LevelAxisVals, w \in LevelAxisVals}

\* ------------------------------------------------------------------ state

VARIABLES
    inputConversionFactor, X, Y, Z, speedmode, feedrate, isFirstCommand,
    offset_x, offset_y, feedspeedfactor,
    backlashX, backlashY, backlashZ,
    last_x, last_y, last_z,
    last_displacement_x, last_displacement_y, last_displacement_z,
    backlash_compensation_x, backlash_compensation_y, backlash_compensation_z,
    levelingData, manualLevelingPoints,
    z_correction,    \* the local of the last processMoveCommand call
    pc,              \* convertFile: "reading", "written", or "raised"
    line,            \* the line of the last digestLine call
    cmds,            \* what the last digestLine call returned
    nLines,          \* the lines read so far
    outputCommands,  \* digestStream's list, kept as its length (n) and the
                     \* number of '^DF' commands in it (df)
    fileOpened,      \* convertFile opened the output file
    outfile          \* the number of commands written to the output file

\* ModelaZeroControl (the calibration controller)
VARIABLES
    ctl_x, ctl_y, ctl_z,  \* x, y, z of the controller: the pose, in steps
    ctl_last,             \* last_x, last_y, last_z of the controller
    z_offset, xy_zero, hasZeroBeenSet, exitRequested, connected,
    spindleEnabled,
    manual_leveling_points,          \* <<>> for None
    microscope_leveling_startpoint,  \* <<>> for None, else <<point>>
    microscope_leveling_endpoint,
    runPc,           \* run(): "constructed", "Jogging", "Done", "Aborted"
    key,             \* the key of the last turn of the key loop
    answer,          \* the answer read in that turn, "" when none was asked
    sent,            \* the commands the last operation handed to sendCommand
    link,            \* the serial port can be opened and written
    nKeys,           \* the keys read, counted up to MaxScanKeys
    scanPc,          \* getAutolevelingData: "idle", "returned", "raised",
                     \* "cancelled" (KeyboardInterrupt)
    scanSteps,       \* its argument steps
    scanResult,      \* what it returned: <<>> for None, else <<heights>>
    sampled,         \* the calls of cam.getFocusValue it made
    focusSamples,    \* the values they gave, a list for each vertex in turn
    micPc,           \* main thread: where it is with the MicroscopeFeed;
                     \* "exited" when sys.exit took it out of main
    loopPc,          \* the thread running loopThread
    threadlock,      \* "free", or the thread holding it: "loop", "main"
    endLoopRequest,
    focusValue,
    vidcapOpened,    \* vidcap.isOpened()
    mic_connected,   \* MicroscopeFeed.connected
    smoothed_laplacian_variance,
    gotFocus,        \* f of getFocusValue
    frames,          \* frames read, counted up to MaxFrames
    nSamples         \* calls of getFocusValue

controller == <<ctl_x, ctl_y, ctl_z, ctl_last, z_offset, xy_zero, hasZeroBeenSet,
                exitRequested, connected, spindleEnabled, manual_leveling_points,
                microscope_leveling_startpoint, microscope_leveling_endpoint,
                runPc, key, answer, sent, link, nKeys>>

scan == <<scanPc, scanSteps, scanResult, sampled, focusSamples>>

feed == <<micPc, loopPc, threadlock, endLoopRequest, focusValue, vidcapOpened,
          mic_connected, smoothed_laplacian_variance, gotFocus, frames, nSamples>>

\* the class attributes of ModelaZeroControl and what __init__ leaves when
\* the port could be opened
ControllerConstructed ==
    /\ ctl_x = 0 /\ ctl_y = 0 /\ ctl_z = 0
    /\ ctl_last = <<0, 0, 0>>
    /\ z_offset = 0
    /\ xy_zero = <<0, 0>>
    /\ hasZeroBeenSet = FALSE
    /\ exitRequested = FALSE
    /\ connected = TRUE
    /\ spindleEnabled = FALSE
    /\ manual_leveling_points = <<>>
    /\ microscope_leveling_startpoint = <<>>
    /\ microscope_leveling_endpoint = <<>>
    /\ runPc = "constructed"
    /\ key = [c |-> "", n |-> 0]
    /\ answer = ""
    /\ sent = <<>>
    /\ link = TRUE
    /\ nKeys = 0
    /\ scanPc = "idle"
    /\ scanSteps = 0
    /\ scanResult = <<>>
    /\ sampled = 0
    /\ focusSamples = <<>>
    \* the class attributes of MicroscopeFeed, no object made yet
    /\ micPc = "none"
    /\ loopPc = "new"
    /\ threadlock = "free"
    /\ endLoopRequest = FALSE
    /\ focusValue = <<0, 1>>
    /\ vidcapOpened = FALSE
    /\ mic_connected = FALSE
    /\ smoothed_laplacian_variance = <<0, 1>>
    /\ gotFocus = <<0, 1>>
    /\ frames = 0
    /\ nSamples = 0

config == <<offset_x, offset_y, feedspeedfactor, backlashX, backlashY, backlashZ,
            levelingData, manualLevelingPoints>>

tracker == <<inputConversionFactor, X, Y, Z, speedmode, feedrate>>

backlashState == <<last_x, last_y, last_z,
                   last_displacement_x, last_displacement_y, last_displacement_z,
                   backlash_compensation_x, backlash_compensation_y,
                   backlash_compensation_z>>

stream == <<pc, line, cmds, outputCommands, outfile, fileOpened, nLines>>

converter == <<config, tracker, isFirstCommand, backlashState, z_correction, stream>>

vars == <<converter, controller, scan, feed>>

\* --------------------------------------------------- device commands

DF == [op |-> "^DF"]

SpindleOff == [op |-> "^DF;!MC0;"]

Home == [op |-> "H"]

Wait(t) == [op |-> "W", t |-> t]

\* 'V {0:.2f};F {0:.2f}'.format(f), f in hundredths
SpeedFeed(f) == [op |-> "V;F", f |-> f]

\* 'Z {:.0f},{:.0f},{:.0f}'.format(...) of a position in model units, the
\* compensation offsets cx, cy, cz in steps and the z correction zc (a
\* fraction of steps)
Position(xu, yu, zu, cx, cy, cz, zc) ==
    [op |-> "Z",
     x |-> RoundHalfEven(xu + (offset_x + cx) * UnitsPerStep, UnitsPerStep),
     y |-> RoundHalfEven(yu + (offset_y + cy) * UnitsPerStep, UnitsPerStep),
     z |-> LET f == FAdd(FAdd(Frac(zu, UnitsPerStep), FInt(cz)), zc)
           IN  RoundHalfEven(f[1], f[2])]

IsPosition(c) == c.op = "Z"

IsSpeedFeed(c) == c.op = "V;F"

\* ------------------------------------------------- height correction

\* levelingData[i][j], i and j counted from 0 as in the program
Pt(data, i, j) == data[i + 1][j + 1]

RECURSIVE FindI(_, _, _, _)
\* 'while i < (n-2)' of the x search, with j = 0
FindI(data, n, px, i) ==
    IF i < n - 2
    THEN IF px >= Pt(data, i, 0)[1] - epsilon /\ px < Pt(data, i + 1, 0)[1]
         THEN i
         ELSE FindI(data, n, px, i + 1)
    ELSE i

RECURSIVE FindJ(_, _, _, _, _)
\* 'while j < (n-2)' of the y search, in the column i found
FindJ(data, n, py, i, j) ==
    IF j < n - 2
    THEN IF py >= Pt(data, i, j)[2] - epsilon /\ py < Pt(data, i, j + 1)[2]
         THEN j
         ELSE FindJ(data, n, py, i, j + 1)
    ELSE j

\* the cell the point falls in
GridCell(data, px, py) ==
    LET n == Len(data[1])
        i == FindI(data, n, px, 0)
    IN  <<i, FindJ(data, n, py, i, 0)>>

\* the weight taken from the wrong end
LerpFromEnd(a, b, f) == FAdd(b, FMul(FSub(b, a), f))

\* 'h00 + (h10 - h00) * fx': from a to b by the fraction f
Lerp(a, b, f) == FAdd(a, FMul(FSub(b, a), f))

\* the interpolated height h at (px, py), an exact fraction; ok = FALSE
\* when the program raises instead (an index past the list, a division by
\* zero)
GridHeight(data, px, py) ==
    LET n == Len(data[1])
        c == GridCell(data, px, py)
        i == c[1]
        j == c[2]
    IN  IF i + 2 > Len(data) \/ j + 2 > n
        THEN [ok |-> FALSE, h |-> FInt(0)]
        ELSE
        LET px0 == Pt(data, i, j)[1]
            px1 == Pt(data, i + 1, j)[1]
            h00 == Pt(data, i, j)[3]
            h10 == Pt(data, i + 1, j)[3]
            h01 == Pt(data, i, j + 1)[3]
            h11 == Pt(data, i + 1, j + 1)[3]
            py0 == Pt(data, i, j)[2]
            py1 == Pt(data, i, j + 1)[2]
        IN  IF px1 = px0 \/ py1 = py0
            THEN [ok |-> FALSE, h |-> FInt(0)]
            ELSE
            LET fx == Frac(px - px0, px1 - px0)
                h0 == Lerp(FInt(h00), FInt(h10), fx)
                h1 == Lerp(FInt(h01), FInt(h11), fx)
                fy == Frac(py - py0, py1 - py0)
            IN  [ok |-> TRUE, h |-> Lerp(h0, h1, fy)]

\* the division taken as defined for every plane
getHeightFor3PointPlaneUnchecked(p1, p2, p3, x, y) == [ok |-> TRUE, h |-> FInt(0)]

\* the plane through p1, p2, p3 (x, y, z in steps) at (x, y), fractions of
\* a step; ok = FALSE for the division by zero
getHeightFor3PointPlane(p1, p2, p3, x, y) ==
    LET v1 == <<p3[1] - p1[1], p3[2] - p1[2], p3[3] - p1[3]>>
        v2 == <<p2[1] - p1[1], p2[2] - p1[2], p2[3] - p1[3]>>
        a == v1[2] * v2[3] - v1[3] * v2[2]
        b == v1[3] * v2[1] - v1[1] * v2[3]
        c == v1[1] * v2[2] - v1[2] * v2[1]
        d == a * p1[1] + b * p1[2] + c * p1[3]
    IN  IF c = 0
        THEN [ok |-> FALSE, h |-> FInt(0)]
        ELSE [ok |-> TRUE,
              h |-> FMul(FSub(FSub(FInt(d), FMul(FInt(a), x)), FMul(FInt(b), y)),
                         Frac(1, c))]

\* z_correction of processMoveCommand for the tracked point (x, y)
ZCorrection(x, y) ==
    IF levelingData # <<>>
    THEN LET r == GridHeight(levelingData, x, y)
         IN  [ok |-> r.ok, zc |-> FNeg(r.h)]
    ELSE IF manualLevelingPoints # <<>> /\ Len(manualLevelingPoints) >= 3
    THEN LET r == getHeightFor3PointPlane(manualLevelingPoints[1],
                      manualLevelingPoints[2], manualLevelingPoints[3],
                      Frac(x, UnitsPerStep), Frac(y, UnitsPerStep))
         IN  [ok |-> r.ok, zc |-> r.h]
    ELSE [ok |-> TRUE, zc |-> FInt(0)]

\* ------------------------------------------------------ move parsing

\* moveCommandParseRegex.match(line): <<>> when the line does not match,
\* else the groups 1, 3, 5, 7 (a group that did not take part is <<>>).
\* The pattern is G0(mode), one white space, then an optional X word, an
\* optional Y word and an optional Z word in that order; match() anchors at
\* the start only, so whatever follows the matched prefix is not looked at.
\* rstrip has removed a separator that nothing follows.
IsWord(w, idx, letter) == idx <= Len(w) /\ w[idx][1] = letter

moveCommandParseRegex(l) ==
    IF ~l.sp \/ l.words = <<>>
    THEN <<>>
    ELSE LET w == l.words
             gx == IsWord(w, 1, "X")
             ix == IF gx THEN 2 ELSE 1
             gy == IsWord(w, ix, "Y")
             iy == IF gy THEN ix + 1 ELSE ix
             gz == IsWord(w, iy, "Z")
         IN  <<[g1 |-> l.mode,
                g3 |-> IF gx THEN <<w[1][2]>> ELSE <<>>,
                g5 |-> IF gy THEN <<w[ix][2]>> ELSE <<>>,
                g7 |-> IF gz THEN <<w[iy][2]>> ELSE <<>>]>>

\* ------------------------------------------------------------ backlash

\* 'abs(self.backlashX) > self.epsilon', the backlash in steps
BacklashConfigured(backlash) == Abs(backlash) * UnitsPerStep > epsilon

\* a slip of sign in the offset
CompensationForPlus(backlash, delta) == IF delta > 0 THEN 0 ELSE backlash

\* the offset taken on a direction change: '0.0 if delta > 0 else -backlash'
CompensationFor(backlash, delta) == IF delta > 0 THEN 0 ELSE -backlash

\* One axis of the backlash handling: the compensation offset, the last
\* displacement and whether a compensation command is appended.
AxisBacklash(backlash, cur, last, lastDisp, comp) ==
    LET delta == cur - last
    IN  IF BacklashConfigured(backlash) /\ Abs(delta) > epsilonMm
        THEN [rev  |-> Opposite(delta, lastDisp),
              comp |-> IF Opposite(delta, lastDisp)
                       THEN CompensationFor(backlash, delta)
                       ELSE comp,
              disp |-> delta]
        ELSE [rev |-> FALSE, comp |-> comp, disp |-> lastDisp]

\* ------------------------------------------------------- the converter

\* the mutable fields of the converter as they stand
Fields ==
    [raised |-> FALSE, out |-> <<>>, zc |-> z_correction,
     icf |-> inputConversionFactor, X |-> X, Y |-> Y, Z |-> Z,
     speedmode |-> speedmode, feedrate |-> feedrate,
     lx |-> last_x, ly |-> last_y, lz |-> last_z,
     dx |-> last_displacement_x, dy |-> last_displacement_y,
     dz |-> last_displacement_z,
     cx |-> backlash_compensation_x, cy |-> backlash_compensation_y,
     cz |-> backlash_compensation_z]

\* the speed+feed value of a mode, in hundredths
FeedValue(mode) ==
    IF mode = "0"
    THEN FastFeed
    ELSE RoundHalfEven(feedrate * inputConversionFactor * feedspeedfactor * 100,
                       FactorMm * 60)

\* an absent component taken as zero
TrackedAxisReset(group, cur) ==
    IF group # <<>> THEN group[1] * inputConversionFactor ELSE 0

\* 'if g.group(n) != None : self.X = float(g.group(n)) * factor'
TrackedAxis(group, cur) ==
    IF group # <<>> THEN group[1] * inputConversionFactor ELSE cur

\* the speed+feed command of a move, if any: 'if self.speedmode != g.group(1)'
SpeedCommands(mode) ==
    IF speedmode # mode THEN <<SpeedFeed(FeedValue(mode))>> ELSE <<>>

\* an unrecognized line treated as fatal
UnrecognizedRaises == [Fields EXCEPT !.raised = TRUE]

\* the else branch of digestLine: print 'Unrecognized command', pass
Unrecognized == Fields

\* processMoveCommand(line): the fields after the call and the commands
\* returned; raised = TRUE when the call ends in an exception, the fields
\* then holding what was assigned before it
processMoveCommand(l) ==
    LET m == moveCommandParseRegex(l)
    IN  IF m = <<>>
        THEN [Fields EXCEPT !.raised = TRUE]              \* g is None: g.group
        ELSE
        LET g == m[1]
            speed == SpeedCommands(g.g1)
            nX == TrackedAxis(g.g3, X)
            nY == TrackedAxis(g.g5, Y)
            nZ == TrackedAxis(g.g7, Z)
            moved == [Fields EXCEPT !.speedmode = g.g1, !.X = nX, !.Y = nY, !.Z = nZ]
            c == ZCorrection(nX, nY)
        IN  IF ~c.ok
            THEN [moved EXCEPT !.raised = TRUE]
            ELSE
            LET zc == c.zc
                corrected == [moved EXCEPT !.zc = zc]
                bx == AxisBacklash(backlashX, nX, last_x, last_displacement_x,
                                   backlash_compensation_x)
                by == AxisBacklash(backlashY, nY, last_y, last_displacement_y,
                                   backlash_compensation_y)
                bz == AxisBacklash(backlashZ, nZ, last_z, last_displacement_z,
                                   backlash_compensation_z)
                ox == IF bx.rev
                      THEN <<Position(last_x, last_y, last_z, bx.comp,
                                      backlash_compensation_y,
                                      backlash_compensation_z, zc)>>
                      ELSE <<>>
                oy == IF by.rev
                      THEN <<Position(last_x, last_y, last_z, bx.comp, by.comp,
                                      backlash_compensation_z, zc)>>
                      ELSE <<>>
                afterXY == [corrected EXCEPT !.cx = bx.comp, !.dx = bx.disp,
                                         !.cy = by.comp, !.dy = by.disp]
            IN  IF bz.rev
                THEN \* the format arguments read self.backlash_compensation_,
                     \* which no object has: AttributeError
                     [afterXY EXCEPT !.cz = bz.comp, !.raised = TRUE]
                ELSE [afterXY EXCEPT
                        !.cz = bz.comp, !.dz = bz.disp,
                        !.lx = nX, !.ly = nY, !.lz = nZ,
                        !.out = speed \o ox \o oy
                                \o <<Position(nX, nY, nZ, bx.comp, by.comp, bz.comp, zc)>>]

\* the dispatch of digestLine after the first-command test
Dispatch(l) ==
    CASE l.k \in {"", "(", "G90", "G94", "M03"} -> Fields
      [] l.k = "G20" -> [Fields EXCEPT !.icf = FactorInch]
      [] l.k = "G21" -> [Fields EXCEPT !.icf = FactorMm]
      [] l.k = "M05" -> [Fields EXCEPT !.out = <<SpindleOff, Home>>]
      [] l.k \in {"G01 F", "F"} ->
            IF l.num = <<>>
            THEN [Fields EXCEPT !.raised = TRUE]           \* float(): ValueError
            ELSE [Fields EXCEPT !.feedrate = l.num[1]]
      [] l.k = "move" -> processMoveCommand(l)
      [] l.k = "G4 P" ->
            IF l.num = <<>>
            THEN [Fields EXCEPT !.raised = TRUE]           \* int(): ValueError
            ELSE [Fields EXCEPT !.out = <<Wait(l.num[1])>>]
      [] OTHER -> Unrecognized

\* what digestLine puts in front on the first call
FirstCommands == IF isFirstCommand THEN <<DF>> ELSE <<>>

\* ---------------------------------------------------------------- actions

\* the converter as __init__ leaves it, for the given configuration
Constructed(backlashes, grids, planes) ==
    /\ inputConversionFactor = FactorMm
    /\ X = 0 /\ Y = 0 /\ Z = 0
    /\ speedmode = "None"
    /\ feedrate = 0
    /\ isFirstCommand = TRUE
    /\ offset_x \in OffsetVals /\ offset_y \in OffsetVals
    /\ feedspeedfactor \in FeedFactorVals
    /\ backlashX \in backlashes /\ backlashY \in backlashes
    /\ backlashZ \in backlashes
    /\ last_x = 0 /\ last_y = 0 /\ last_z = 0
    /\ last_displacement_x = 0 /\ last_displacement_y = 0
    /\ last_displacement_z = 0
    /\ backlash_compensation_x = 0 /\ backlash_compensation_y = 0
    /\ backlash_compensation_z = 0
    /\ levelingData \in grids
    /\ manualLevelingPoints \in planes
    /\ z_correction = FInt(0)
    /\ pc = "reading"
    /\ line = [k |-> ""]
    /\ cmds = <<>>
    /\ nLines = 0
    /\ outputCommands = [n |-> 0, df |-> 0]
    /\ fileOpened = FALSE
    /\ outfile = 0
    /\ ControllerConstructed

\* a conversion with backlash compensation and no leveling
Init == Constructed(BacklashVals, {<<>>}, {<<>>})

\* a conversion with a height grid and no backlash compensation
InitGrid == Constructed({0}, Grids, {<<>>})

\* the list after extend(c)
Extend(list, c) ==
    [n |-> list.n + Len(c),
     df |-> list.df + Cardinality({i \in 1..Len(c) : c[i] = DF})]

\* digestStream's loop body: one digestLine call and the extend of the list.
\* An exception leaves digestStream and convertFile; main prints it.
DigestLine(l) ==
    /\ pc = "reading"
    /\ nLines < MaxLines
    /\ \E r \in {Dispatch(l)} :
           /\ isFirstCommand' = FALSE
           /\ inputConversionFactor' = r.icf
           /\ X' = r.X /\ Y' = r.Y /\ Z' = r.Z
           /\ speedmode' = r.speedmode
           /\ feedrate' = r.feedrate
           /\ last_x' = r.lx /\ last_y' = r.ly /\ last_z' = r.lz
           /\ last_displacement_x' = r.dx
           /\ last_displacement_y' = r.dy
           /\ last_displacement_z' = r.dz
           /\ backlash_compensation_x' = r.cx
           /\ backlash_compensation_y' = r.cy
           /\ backlash_compensation_z' = r.cz
           /\ z_correction' = r.zc
           /\ IF r.raised
              THEN /\ pc' = "raised"
                   /\ cmds' = <<>>
                   /\ outputCommands' = outputCommands
              ELSE /\ pc' = "reading"
                   /\ cmds' = FirstCommands \o r.out
                   /\ outputCommands' = Extend(outputCommands, cmds')
    /\ line' = l
    /\ nLines' = nLines + 1
    /\ UNCHANGED <<config, outfile, fileOpened, controller, scan, feed>>

\* convertFile after digestStream returned: open the file, write the list
WriteOutfile ==
    /\ pc = "reading"
    /\ pc' = "written"
    /\ fileOpened' = TRUE
    /\ outfile' = outputCommands.n
    /\ UNCHANGED <<config, tracker, isFirstCommand, backlashState, z_correction,
                   line, cmds, outputCommands, nLines, controller, scan, feed>>

Next ==
    \/ \E l \in Lines : DigestLine(l)
    \/ WriteOutfile

Spec == Init /\ [][Next]_vars

NextGrid ==
    \/ \E l \in GridLines : nLines < MaxGridMoves /\ DigestLine(l)
    \/ WriteOutfile

SpecGrid == InitGrid /\ [][NextGrid]_vars

\* a conversion with backlash compensation and a grid, a plane, or neither
InitLevel == Constructed(BacklashVals, {<<>>} \cup LevelGrids, {<<>>} \cup Planes)

NextLevel ==
    \/ \E l \in LevelLines : nLines < MaxLevelMoves /\ DigestLine(l)
    \/ WriteOutfile

SpecLevel == InitLevel /\ [][NextLevel]_vars

\* ------------------------------------------- the calibration controller

\* A key as the loop of run() sees it: c is the character tested, n is 0
\* for a plain key and the code of the second character for a key that
\* arrives as '\xe0' or '\x00' and a second character (then c is that
\* second character). "ESC" and "ETX" stand for the characters 27 and 3.
Plain(c) == [c |-> c, n |-> 0]

Ext(c, n) == [c |-> c, n |-> n]

\* the keys run() names, a key it does not know ('x', Alt+Q), and keys of
\* two characters whose second one is 'h' (Alt+F1), 27 (Alt+]) and 3 (Ctrl+2)
PlainKeys ==
    {Plain(c) : c \in {"q", "h", "Z", "w", "s", "d", "a", "W", "S", "D", "A",
                       "z", "m", "1", "2", "ESC", "ETX", "x"}}

ExtKeys ==
    {Ext("H", 72), Ext("P", 80), Ext("chr141", 141), Ext("chr145", 145),
     Ext("chr152", 152), Ext("chr160", 160), Ext("K", 75), Ext("M", 77),
     Ext("chr16", 16), Ext("h", 104), Ext("ESC", 27), Ext("ETX", 3)}

Keys == PlainKeys \cup ExtKeys

\* the answers to 'Would you like to set the current position as the Zero'
Answers == {"y", "Y", "n"}

\* the keys of a jog along the table and the end of the loop
JogKeys == {Plain(c) : c \in {"w", "s", "d", "a", "q"}}

\* arguments of moveTo, on and off the table
MoveToVals == {-100, 0, 7000}

\* the fields of the controller as they stand, and the commands handed to
\* sendCommand so far in the operation
Ctl ==
    [x |-> ctl_x, y |-> ctl_y, z |-> ctl_z, last |-> ctl_last,
     z_offset |-> z_offset, xy_zero |-> xy_zero, has |-> hasZeroBeenSet,
     exit |-> exitRequested, spindle |-> spindleEnabled,
     mlp |-> manual_leveling_points,
     sp |-> microscope_leveling_startpoint,
     ep |-> microscope_leveling_endpoint,
     pc |-> runPc, out |-> <<>>]

\* '^IN;!MC0;H' and '^DF;!MC0;H'
ClearHome == [op |-> "^IN;!MC0;H"]

HomeCommand == [op |-> "^DF;!MC0;H"]

\* '^DF;!ZO{:.3f};;'
ZeroOffset(v) == [op |-> "!ZO", v |-> v]

\* '^DF;!MC{0};!PZ0,0;V15.0;Z{1:.3f},{2:.3f},{3:.3f};!MC{0};...'
MoveCommand(f) == [op |-> "Z", x |-> f.x, y |-> f.y, z |-> f.z, mc |-> f.spindle]

\* sendCommand(cmd): the command is handed to the port, which takes it or
\* not; the handler goes on either way
sendCommand(f, cmd) == [f EXCEPT !.out = Append(@, cmd)]

\* the limits left out
ClampNone(v, max) == v

\* 'if self.x < 0.0 : self.x = 0.0' and 'if self.x > self.X_MAX : ...'
Clamp(v, max) == IF v < 0 THEN 0 ELSE IF v > max THEN max ELSE v

sendMoveCommand(f) ==
    LET g == [f EXCEPT !.x = Clamp(f.x, X_MAX), !.y = Clamp(f.y, Y_MAX)]
    IN  [sendCommand(g, MoveCommand(g)) EXCEPT !.last = <<g.x, g.y, g.z>>]

moveTo(f, px, py, pz) == sendMoveCommand([f EXCEPT !.x = px, !.y = py, !.z = pz])

\* the leveling points kept over a new zero
setZeroHereKeepsPoints(f) ==
    [sendCommand([f EXCEPT !.z_offset = f.z_offset + f.z, !.z = 0],
                 ZeroOffset(f.z_offset + f.z))
        EXCEPT !.xy_zero = <<f.x, f.y>>, !.has = TRUE]

setZeroHere(f) ==
    [sendCommand([f EXCEPT !.z_offset = f.z_offset + f.z, !.z = 0],
                 ZeroOffset(f.z_offset + f.z))
        EXCEPT !.xy_zero = <<f.x, f.y>>, !.has = TRUE, !.mlp = <<>>]

\* the point recorded whether the zero has been set or not
setLevelingPointHereUnzeroed(f) ==
    [f EXCEPT !.mlp =
        Append(IF f.mlp = <<>> THEN << <<f.xy_zero[1], f.xy_zero[2], 0>> >> ELSE f.mlp,
               <<f.x, f.y, f.z>>)]

setLevelingPointHere(f) ==
    IF ~f.has
    THEN setZeroHere(f)
    ELSE [f EXCEPT !.mlp =
            Append(IF f.mlp = <<>> THEN << <<f.xy_zero[1], f.xy_zero[2], 0>> >> ELSE f.mlp,
                   <<f.x, f.y, f.z>>)]

\* run() down to the key loop
RunPrologue(f) ==
    LET a == sendCommand(f, ClearHome)
        b == sendCommand([a EXCEPT !.z_offset = Z_DEFAULT_OFFSET],
                         ZeroOffset(Z_DEFAULT_OFFSET))
        c == sendMoveCommand([b EXCEPT !.x = 0, !.y = 0, !.z = 0, !.spindle = FALSE])
    IN  [c EXCEPT !.xy_zero = <<0, 0>>, !.pc = "Jogging"]

\* a jog by (dx, dy, dz)
Jog(f, dx, dy, dz) ==
    sendMoveCommand([f EXCEPT !.x = @ + dx, !.y = @ + dy, !.z = @ + dz])

\* one turn of the key loop of run() for key k, ans being the answer read
\* if the turn asks for one
Handle(f, k, ans) ==
    LET c == k.c
        n == k.n
    IN  IF c = "q" /\ n = 0 THEN
            [(IF ~f.has /\ ans \in {"y", "Y"} THEN setZeroHere(f) ELSE f)
                EXCEPT !.pc = "Done"]
        ELSE IF c = "h" THEN sendCommand(f, HomeCommand)
        ELSE IF c = "Z" THEN
            sendMoveCommand([f EXCEPT !.x = f.xy_zero[1], !.y = f.xy_zero[2], !.z = 0])
        ELSE IF c = "w" /\ n = 0 THEN Jog(f, 0, XY_INCREMENTS_LARGE, 0)
        ELSE IF c = "s" /\ n = 0 THEN Jog(f, 0, -XY_INCREMENTS_LARGE, 0)
        ELSE IF c = "d" /\ n = 0 THEN Jog(f, XY_INCREMENTS_LARGE, 0, 0)
        ELSE IF c = "a" /\ n = 0 THEN Jog(f, -XY_INCREMENTS_LARGE, 0, 0)
        ELSE IF c = "W" /\ n = 0 THEN Jog(f, 0, XY_INCREMENTS, 0)
        ELSE IF c = "S" /\ n = 0 THEN Jog(f, 0, -XY_INCREMENTS, 0)
        ELSE IF c = "D" /\ n = 0 THEN Jog(f, XY_INCREMENTS, 0, 0)
        ELSE IF c = "A" /\ n = 0 THEN Jog(f, -XY_INCREMENTS, 0, 0)
        ELSE IF n = 72 THEN Jog(f, 0, 0, Z_INCREMENTS)
        ELSE IF n = 80 THEN Jog(f, 0, 0, -Z_INCREMENTS)
        ELSE IF n = 141 THEN Jog(f, 0, 0, Z_INCREMENTS_MED)
        ELSE IF n = 145 THEN Jog(f, 0, 0, -Z_INCREMENTS_MED)
        ELSE IF n = 152 THEN Jog(f, 0, 0, Z_INCREMENTS_LARGE)
        ELSE IF n = 160 THEN Jog(f, 0, 0, -Z_INCREMENTS_LARGE)
        ELSE IF c = "z" /\ n = 0 THEN setZeroHere(f)
        ELSE IF c = "m" /\ n = 0 THEN setLevelingPointHere(f)
        ELSE IF n = 75 THEN sendMoveCommand([f EXCEPT !.spindle = FALSE])
        ELSE IF n = 77 THEN sendMoveCommand([f EXCEPT !.spindle = TRUE])
        ELSE IF c = "1" THEN [f EXCEPT !.sp = << <<f.x, f.y, f.z>> >>]
        ELSE IF c = "2" THEN [f EXCEPT !.ep = << <<f.x, f.y, f.z>> >>]
        ELSE IF c = "ESC" THEN [f EXCEPT !.exit = TRUE, !.pc = "Aborted"]
        ELSE IF c = "ETX" THEN [f EXCEPT !.exit = TRUE, !.pc = "Aborted"]
        ELSE f

\* the controller after an operation that left the fields r: a command
\* handed to a port that cannot be written marks the connection lost
Becomes(r) ==
    /\ ctl_x' = r.x /\ ctl_y' = r.y /\ ctl_z' = r.z
    /\ ctl_last' = r.last
    /\ z_offset' = r.z_offset
    /\ xy_zero' = r.xy_zero
    /\ hasZeroBeenSet' = r.has
    /\ exitRequested' = r.exit
    /\ spindleEnabled' = r.spindle
    /\ manual_leveling_points' = r.mlp
    /\ microscope_leveling_startpoint' = r.sp
    /\ microscope_leveling_endpoint' = r.ep
    /\ runPc' = r.pc
    /\ sent' = r.out
    /\ connected' = (connected /\ (r.out = <<>> \/ link))

\* main calls run() on a connected controller
Run ==
    /\ runPc = "constructed"
    /\ connected
    /\ Becomes(RunPrologue(Ctl))
    /\ UNCHANGED <<key, answer, link, nKeys, converter, scan, feed>>

\* one turn of the key loop
KeyEvent(k, ans) ==
    /\ runPc = "Jogging"
    /\ \E r \in {Handle(Ctl, k, ans)} : Becomes(r)
    /\ key' = k
    /\ answer' = IF k = Plain("q") /\ ~hasZeroBeenSet THEN ans ELSE ""
    /\ nKeys' = IF nKeys < MaxScanKeys THEN nKeys + 1 ELSE nKeys
    /\ UNCHANGED <<link, converter, scan, feed>>

\* a call of moveTo after run() returned
MoveTo(px, py, pz) ==
    /\ runPc = "Done"
    /\ Becomes(moveTo(Ctl, px, py, pz))
    /\ UNCHANGED <<key, answer, link, nKeys, converter, scan, feed>>

\* the port goes away (cable, power) and comes back
LinkLost ==
    /\ runPc = "Jogging"
    /\ link
    /\ link' = FALSE
    /\ UNCHANGED <<ctl_x, ctl_y, ctl_z, ctl_last, z_offset, xy_zero, hasZeroBeenSet,
                   exitRequested, connected, spindleEnabled, manual_leveling_points,
                   microscope_leveling_startpoint, microscope_leveling_endpoint,
                   runPc, key, answer, sent, nKeys, converter, scan, feed>>

LinkRestored ==
    /\ runPc = "Jogging"
    /\ ~link
    /\ link' = TRUE
    /\ UNCHANGED <<ctl_x, ctl_y, ctl_z, ctl_last, z_offset, xy_zero, hasZeroBeenSet,
                   exitRequested, connected, spindleEnabled, manual_leveling_points,
                   microscope_leveling_startpoint, microscope_leveling_endpoint,
                   runPc, key, answer, sent, nKeys, converter, scan, feed>>

\* the converter not yet in use
InitZero == Constructed({0}, {<<>>}, {<<>>})

\* a calibration session at the keyboard
NextZero ==
    \/ Run
    \/ \E k \in Keys, ans \in Answers : nKeys < MaxKeys /\ KeyEvent(k, ans)
    \/ LinkLost
    \/ LinkRestored

SpecZero == InitZero /\ [][NextZero]_vars

\* a jog along the table with the large increments, then moveTo calls
NextJog ==
    \/ Run
    \/ \E k \in JogKeys : KeyEvent(k, "n")
    \/ \E px \in MoveToVals, py \in MoveToVals : MoveTo(px, py, 0)

SpecJog == InitZero /\ [][NextJog]_vars

\* ------------------------------------------------- the autolevel scan

\* the argument steps (main passes int(options.levelingsegments))
StepsVals == {0, 1, 2}

\* where the image is sharpest over a grid of (st+1) x (st+1) vertices:
\* flat, rising, and highest at the first vertex
RankGrids(st) ==
    {[i \in 0..st |-> [j \in 0..st |-> 0]],
     [i \in 0..st |-> [j \in 0..st |-> i + 2 * j]],
     [i \in 0..st |-> [j \in 0..st |-> IF i = 0 /\ j = 0 THEN 7 ELSE 2 * i]]}

\* the values cam.getFocusValue() gives over the probe of a vertex: sharpest
\* at index peak and as sharp again ten indices later
FocusCurve(peak) ==
    [k \in 1..heightpoints |-> IF k - 1 = peak \/ k - 1 = peak + 10 THEN 9 ELSE 1]

\* the camera over a scan: cam[i][j] the values given at vertex (i, j);
\* a curve for each vertex, or the same value throughout
CamGrids(st) ==
    {[i \in 0..st |-> [j \in 0..st |-> FocusCurve(g[i][j])]] : g \in RankGrids(st)}
    \cup {[i \in 0..st |-> [j \in 0..st |-> [k \in 1..heightpoints |-> 4]]]}

\* numpy.argmax: the first index, from 0, of the greatest value
argmax(focusValues) ==
    CHOOSE k \in 0..(Len(focusValues) - 1) :
        /\ \A m \in 0..(Len(focusValues) - 1) : focusValues[m + 1] <= focusValues[k + 1]
        /\ \A m \in 0..(k - 1) : focusValues[m + 1] < focusValues[k + 1]

\* the keys before a scan: the two points, jogs in x and y, the end
ScanKeys == {Plain(c) : c \in {"1", "2", "d", "w", "q"}}

\* the test on the start point alone
StartPointCaptured(f) == f.sp # <<>>

\* 'self.microscope_leveling_startpoint != None and
\*  self.microscope_leveling_endpoint != None'
BothPointsCaptured(f) == f.sp # <<>> /\ f.ep # <<>>

\* 'for k in range(heightpoints)': moveTo(px, py, startingHeight - k), one
\* move command for each k, the pose left at the last of them
Probe(f, px, py, startingHeight) ==
    LET g == moveTo(f, px, py, startingHeight - (heightpoints - 1))
    IN  [g EXCEPT !.out = f.out \o
            [k \in 1..heightpoints |->
                MoveCommand([g EXCEPT !.z = startingHeight - (k - 1)])]]

\* the body of the two loops for vertex (i, j): the moves made and the
\* entry of heights. The quotient is exact for the poses the large jog
\* increment reaches and steps up to 2.
ScanVertex(f, st, i, j, focusValues) ==
    LET p1 == f.sp[1]
        p2 == f.ep[1]
        startingHeight == p1[3] + heightpoints \div 2
        px == p1[1] + ((p2[1] - p1[1]) * i) \div st
        py == p1[2] + ((p2[2] - p1[2]) * j) \div st
        a == moveTo(f, px, py, startingHeight + 5)
        b == Probe(a, px, py, startingHeight)
        maxrank == argmax(focusValues)
    IN  [f |-> moveTo(b, px, py, startingHeight - maxrank), pt |-> <<px, py, maxrank>>]

\* the two loops, 'for i in range(steps+1)' and 'for j in range(steps+1)':
\* vertex number v is (v \div (steps+1), v % (steps+1)). The body sets the
\* whole pose by moveTo, so each vertex is computed from the fields the
\* loops start with; the commands follow each other in the order of the
\* loops and the pose left is that of the last vertex. heights is
\* heights[i][j] with i and j counted from 1.
ScanLoop(f, st, cam) ==
    LET n == st + 1
        each == heightpoints + 2
        V(v) == ScanVertex([f EXCEPT !.out = <<>>], st, v \div n, v % n,
                           cam[v \div n][v % n])
        moves == [m \in 1..(n * n * each) |->
                     V((m - 1) \div each).f.out[((m - 1) % each) + 1]]
    IN  [f |-> [V(n * n - 1).f EXCEPT !.out = f.out \o moves],
         heights |-> [i \in 1..n |-> [j \in 1..n |-> V((i - 1) * n + (j - 1)).pt]]]

\* 'Bias results relative to initial point, at origin'
Rebase(heights) ==
    LET o == heights[1][1]
    IN  [i \in DOMAIN heights |-> [j \in DOMAIN heights[i] |->
            <<heights[i][j][1] - o[1], heights[i][j][2] - o[2], heights[i][j][3] - o[3]>>]]

\* getAutolevelingData(cam, steps = st) on the fields f, the camera giving
\* the values cam: the fields after, how the call ended, what it returned,
\* the number of values taken and the values, vertex after vertex
getAutolevelingData(f, st, cam) ==
    IF ~BothPointsCaptured(f)
    THEN [f |-> f, pc |-> "returned", result |-> <<>>, sampled |-> 0, taken |-> <<>>]
    ELSE IF f.sp = <<>> \/ f.ep = <<>>
    THEN \* '(x1,y1,z1) = None': TypeError
         [f |-> f, pc |-> "raised", result |-> <<>>, sampled |-> 0, taken |-> <<>>]
    ELSE LET a == moveTo(f, f.sp[1][1], f.sp[1][2], f.sp[1][3])
         IN  IF st = 0
             THEN \* 'fx = float(i) / (steps)': ZeroDivisionError
                  [f |-> a, pc |-> "raised", result |-> <<>>, sampled |-> 0,
                   taken |-> <<>>]
             ELSE LET r == ScanLoop(a, st, cam)
                  IN  [f |-> r.f, pc |-> "returned",
                       result |-> <<Rebase(r.heights)>>,
                       sampled |-> (st + 1) * (st + 1) * heightpoints,
                       taken |-> [v \in 1..((st + 1) * (st + 1)) |->
                                     cam[(v - 1) \div (st + 1)][(v - 1) % (st + 1)]]]

\* main calls getAutolevelingData after run() returned with no exit asked
Scan(st, cam) ==
    /\ runPc = "Done"
    /\ ~exitRequested
    /\ scanPc = "idle"
    /\ \E r \in {getAutolevelingData(Ctl, st, cam)} :
          /\ Becomes(r.f)
          /\ scanPc' = r.pc
          /\ scanResult' = r.result
          /\ sampled' = r.sampled
          /\ focusSamples' = r.taken
    /\ scanSteps' = st
    /\ UNCHANGED <<key, answer, link, nKeys, converter, feed>>

NextScan ==
    \/ Run
    \/ \E k \in ScanKeys : nKeys < MaxScanKeys /\ KeyEvent(k, "n")
    \/ \E st \in StepsVals : \E cam \in CamGrids(st) : Scan(st, cam)

SpecScan == InitZero /\ [][NextScan]_vars

\* ------------------------------------------------- the microscope feed

\* the variance of the Laplacian of a frame: while frames are counted any
\* of two values, afterwards the value the smoothing has reached
VarianceVals == IF frames < MaxFrames THEN {FInt(0), FInt(8)}
                ELSE {smoothed_laplacian_variance}

\* join() taken to return at once
JoinedAtOnce(p) == TRUE

\* loopthread.join() returns when the thread has ended: by the return at
\* the top, by the break, or by an exception
Joined(p) == p \in {"returned", "done", "raised"}

\* mic = MicroscopeFeed(channel): the capture device opens or not
MicroscopeFeed(opened) ==
    /\ micPc = "none"
    /\ micPc' = "constructed"
    /\ vidcapOpened' = opened
    /\ mic_connected' = opened
    /\ UNCHANGED <<loopPc, threadlock, endLoopRequest, focusValue,
                   smoothed_laplacian_variance, gotFocus, frames, nSamples,
                   converter, controller, scan>>

startLoop ==
    /\ micPc = "constructed"
    /\ micPc' = "started"
    /\ loopPc' = "entry"
    /\ UNCHANGED <<threadlock, endLoopRequest, focusValue, vidcapOpened,
                   mic_connected, smoothed_laplacian_variance, gotFocus, frames,
                   nSamples, converter, controller, scan>>

\* 'if not self.vidcap.isOpened() : return'
LoopEntry ==
    /\ loopPc = "entry"
    /\ loopPc' = IF vidcapOpened THEN "read" ELSE "returned"
    /\ UNCHANGED <<micPc, threadlock, endLoopRequest, focusValue, vidcapOpened,
                   mic_connected, smoothed_laplacian_variance, gotFocus, frames,
                   nSamples, converter, controller, scan>>

\* a frame is read, measured and shown; v is its variance
LoopRead(v) ==
    /\ loopPc = "read"
    /\ smoothed_laplacian_variance' =
           FAdd(FMul(v, Frac(1, 2)), FMul(smoothed_laplacian_variance, Frac(1, 2)))
    /\ frames' = IF frames < MaxFrames THEN frames + 1 ELSE frames
    /\ loopPc' = "acquire"
    /\ UNCHANGED <<micPc, threadlock, endLoopRequest, focusValue, vidcapOpened,
                   mic_connected, gotFocus, nSamples, converter, controller, scan>>

\* vidcap.read() gives no frame: 'frame.shape' raises and the thread ends
LoopReadFails ==
    /\ loopPc = "read"
    /\ loopPc' = "raised"
    /\ UNCHANGED <<micPc, threadlock, endLoopRequest, focusValue, vidcapOpened,
                   mic_connected, smoothed_laplacian_variance, gotFocus, frames,
                   nSamples, converter, controller, scan>>

\* 'with self.threadlock :' in loopThread
LoopAcquire ==
    /\ loopPc = "acquire"
    /\ threadlock = "free"
    /\ threadlock' = "loop"
    /\ loopPc' = "held"
    /\ UNCHANGED <<micPc, endLoopRequest, focusValue, vidcapOpened, mic_connected,
                   smoothed_laplacian_variance, gotFocus, frames, nSamples,
                   converter, controller, scan>>

\* the body under the lock: the focus value is published, and on
\* endLoopRequest the device is released and the loop left
LoopBody ==
    /\ loopPc = "held"
    /\ focusValue' = smoothed_laplacian_variance
    /\ IF endLoopRequest
       THEN vidcapOpened' = FALSE /\ loopPc' = "done"
       ELSE vidcapOpened' = vidcapOpened /\ loopPc' = "read"
    /\ threadlock' = "free"
    /\ UNCHANGED <<micPc, endLoopRequest, mic_connected,
                   smoothed_laplacian_variance, gotFocus, frames, nSamples,
                   converter, controller, scan>>

loopThread == LoopEntry \/ (\E v \in VarianceVals : LoopRead(v)) \/ LoopReadFails
                  \/ LoopAcquire \/ LoopBody

\* getFocusValue is called (by the scan, which main runs when the
\* microscope is connected): 'f = 0.0'
GetFocusValueCall ==
    /\ micPc = "started"
    /\ mic_connected
    /\ nSamples < MaxSamples
    /\ nSamples' = nSamples + 1
    /\ gotFocus' = FInt(0)
    /\ micPc' = "gfv_acquire"
    /\ UNCHANGED <<loopPc, threadlock, endLoopRequest, focusValue, vidcapOpened,
                   mic_connected, smoothed_laplacian_variance, frames,
                   converter, controller, scan>>

\* 'with self.threadlock :' in getFocusValue
GetFocusValueAcquire ==
    /\ micPc = "gfv_acquire"
    /\ threadlock = "free"
    /\ threadlock' = "main"
    /\ micPc' = "gfv_held"
    /\ UNCHANGED <<loopPc, endLoopRequest, focusValue, vidcapOpened, mic_connected,
                   smoothed_laplacian_variance, gotFocus, frames, nSamples,
                   converter, controller, scan>>

\* 'f = self.focusValue', the lock given back, 'return f'
GetFocusValueBody ==
    /\ micPc = "gfv_held"
    /\ gotFocus' = focusValue
    /\ threadlock' = "free"
    /\ micPc' = "started"
    /\ UNCHANGED <<loopPc, endLoopRequest, focusValue, vidcapOpened, mic_connected,
                   smoothed_laplacian_variance, frames, nSamples,
                   converter, controller, scan>>

\* main calls mic.endLoop()
EndLoopCall ==
    /\ micPc = "started"
    /\ micPc' = "end_acquire"
    /\ UNCHANGED <<loopPc, threadlock, endLoopRequest, focusValue, vidcapOpened,
                   mic_connected, smoothed_laplacian_variance, gotFocus, frames,
                   nSamples, converter, controller, scan>>

\* 'with self.threadlock :' in endLoop
EndLoopAcquire ==
    /\ micPc = "end_acquire"
    /\ threadlock = "free"
    /\ threadlock' = "main"
    /\ micPc' = "end_held"
    /\ UNCHANGED <<loopPc, endLoopRequest, focusValue, vidcapOpened, mic_connected,
                   smoothed_laplacian_variance, gotFocus, frames, nSamples,
                   converter, controller, scan>>

\* 'self.endLoopRequest = True' and the lock given back
EndLoopBody ==
    /\ micPc = "end_held"
    /\ endLoopRequest' = TRUE
    /\ threadlock' = "free"
    /\ micPc' = "join"
    /\ UNCHANGED <<loopPc, focusValue, vidcapOpened, mic_connected,
                   smoothed_laplacian_variance, gotFocus, frames, nSamples,
                   converter, controller, scan>>

\* 'self.loopthread.join()' returns
EndLoopJoin ==
    /\ micPc = "join"
    /\ Joined(loopPc)
    /\ micPc' = "ended"
    /\ UNCHANGED <<loopPc, threadlock, endLoopRequest, focusValue, vidcapOpened,
                   mic_connected, smoothed_laplacian_variance, gotFocus, frames,
                   nSamples, converter, controller, scan>>

NextFeed ==
    \/ \E opened \in BOOLEAN : MicroscopeFeed(opened)
    \/ startLoop
    \/ loopThread
    \/ GetFocusValueCall
    \/ GetFocusValueAcquire
    \/ GetFocusValueBody
    \/ EndLoopCall
    \/ EndLoopAcquire
    \/ EndLoopBody
    \/ EndLoopJoin

\* a started thread runs; a thread holding the lock gives it back; a thread
\* waiting for the lock gets it when it is free again and again, the loop
\* holding it only for an assignment in each frame; join returns when the
\* thread has ended. Nothing makes main call getFocusValue or endLoop.
FairFeed ==
    /\ WF_vars(loopThread)
    /\ WF_vars(GetFocusValueBody \/ EndLoopBody \/ EndLoopJoin)
    /\ SF_vars(GetFocusValueAcquire \/ EndLoopAcquire)

SpecFeed == InitZero /\ [][NextFeed]_vars /\ FairFeed

\* ------------------------------------------------------ the flow of main

\* the keys of a calibration: the two points, the end, Esc
MainKeys == {Plain(c) : c \in {"1", "2", "q", "ESC"}}

\* the segments asked for and the camera values of a scan run from main
MainStepsVals == {0, 1}

\* the commands a scan has sent when Ctrl-C reaches it
CutVals == {1, 2, 30}

\* main with the options microscope and zero: run() is called once the
\* frame loop has been started
MainRun == micPc = "started" /\ Run

\* 'if mic != None and mic.isConnected() and modelaZeroControl != None'
MainScan(st, cam) == micPc = "started" /\ mic_connected /\ Scan(st, cam)

\* Ctrl-C during getAutolevelingData, after cut of its commands were sent:
\* KeyboardInterrupt leaves the scan, main prints 'Leveling cancelled'
ScanCancelled(st, cam, cut) ==
    /\ micPc = "started" /\ mic_connected
    /\ runPc = "Done"
    /\ ~exitRequested
    /\ scanPc = "idle"
    /\ \E r \in {getAutolevelingData(Ctl, st, cam)} :
          /\ r.pc = "returned"
          /\ cut <= Len(r.f.out)
          /\ Becomes([Ctl EXCEPT !.x = r.f.out[cut].x, !.y = r.f.out[cut].y,
                                 !.z = r.f.out[cut].z,
                                 !.last = <<r.f.out[cut].x, r.f.out[cut].y,
                                            r.f.out[cut].z>>,
                                 !.out = SubSeq(r.f.out, 1, cut)])
    /\ scanPc' = "cancelled"
    /\ scanSteps' = st
    /\ UNCHANGED <<scanResult, sampled, focusSamples, key, answer, link, nKeys,
                   converter, feed>>

\* 'sys.exit(1)' after exitRequested or after the cancelled scan: SystemExit
\* is no Exception, 'except Exception' lets it through and main is left
SysExit ==
    /\ micPc = "started"
    /\ (runPc = "Aborted" /\ exitRequested) \/ scanPc = "cancelled"
    /\ micPc' = "exited"
    /\ UNCHANGED <<loopPc, threadlock, endLoopRequest, focusValue, vidcapOpened,
                   mic_connected, smoothed_laplacian_variance, gotFocus, frames,
                   nSamples, converter, controller, scan>>

\* main has come to 'if mic != None : mic.endLoop()': no zero was asked
\* for, or run() returned and the scan was not called, returned or raised
\* an Exception (which main prints)
AtCleanup ==
    \/ runPc = "constructed"
    \/ /\ runPc = "Done"
       /\ ~exitRequested
       /\ scanPc \in {"returned", "raised"} \/ (scanPc = "idle" /\ ~mic_connected)

MainEndLoop == AtCleanup /\ EndLoopCall

NextMain ==
    \/ \E opened \in BOOLEAN : MicroscopeFeed(opened)
    \/ startLoop
    \/ loopThread
    \/ MainRun
    \/ \E k \in MainKeys : nKeys < MaxKeys /\ KeyEvent(k, "n")
    \/ \E st \in MainStepsVals : \E cam \in CamGrids(st) : MainScan(st, cam)
    \/ \E st \in MainStepsVals : \E cam \in CamGrids(st) : \E cut \in CutVals :
          ScanCancelled(st, cam, cut)
    \/ SysExit
    \/ MainEndLoop
    \/ EndLoopAcquire
    \/ EndLoopBody
    \/ EndLoopJoin

SpecMain == InitZero /\ [][NextMain]_vars

\* ------------------------------------------------------------ properties

\* a step of digestStream's loop (one digestLine call)
Digested == nLines' = nLines + 1

\* the position commands among c, in order
Positions(c) == SelectSeq(c, IsPosition)

\* the line is a move the pattern matches
Matched(l) == l.k = "move" /\ moveCommandParseRegex(l) # <<>>

\* the line carries a word for the axis
HasWord(l, a) == l.k = "move" /\ \E i \in 1..Len(l.words) : l.words[i][1] = a

\* Section 4.3 of the specification: a move to 'new' reverses an axis with
\* backlash configured when it displaces the axis by more than epsilon
\* against the last displacement
Reverses(backlash, new, last, lastDisp) ==
    /\ Abs(backlash) * UnitsPerStep > epsilon
    /\ Abs(new - last) > epsilonMm
    /\ Opposite(new - last, lastDisp)

\* ... and does so by -d after +d
MinusAfterPlus(backlash, new, last, lastDisp) ==
    /\ backlash * UnitsPerStep > epsilon
    /\ lastDisp > epsilonMm
    /\ new - last = -lastDisp

RevX == Reverses(backlashX, X', last_x, last_displacement_x)

RevY == Reverses(backlashY, Y', last_y, last_displacement_y)

RevZ == Reverses(backlashZ, Z', last_z, last_displacement_z)

NRev == (IF RevX THEN 1 ELSE 0) + (IF RevY THEN 1 ELSE 0) + (IF RevZ THEN 1 ELSE 0)

\* C1: on each axis with backlash B configured, a move by -d that follows a
\* displacement by +d (no other axis reversing) returns exactly one extra
\* position command before the real one and leaves the axis's compensation
\* offset at -B; a move that reverses no axis returns the real position
\* command alone.
C1_PlusThenMinusEmitsOneExtra ==
    [][Digested /\ Matched(line') =>
        /\ MinusAfterPlus(backlashX, X', last_x, last_displacement_x) /\ ~RevY /\ ~RevZ
             => /\ pc' = "reading"
                /\ Len(Positions(cmds')) = 2
                /\ backlash_compensation_x' = -backlashX
        /\ MinusAfterPlus(backlashY, Y', last_y, last_displacement_y) /\ ~RevX /\ ~RevZ
             => /\ pc' = "reading"
                /\ Len(Positions(cmds')) = 2
                /\ backlash_compensation_y' = -backlashY
        /\ MinusAfterPlus(backlashZ, Z', last_z, last_displacement_z) /\ ~RevX /\ ~RevY
             => /\ pc' = "reading"
                /\ Len(Positions(cmds')) = 2
                /\ backlash_compensation_z' = -backlashZ
        /\ NRev = 0 => pc' = "reading" /\ Len(Positions(cmds')) = 1
      ]_vars

\* C2: a move returns one extra position command per reversing axis, before
\* the real one; when X, Y and Z all reverse, the three extras are at the
\* previous position with the offsets of X, then X and Y, then X, Y and Z
\* updated.
C2_OneExtraPerReversingAxis ==
    [][Digested /\ Matched(line') =>
        /\ pc' = "reading"
        /\ Len(Positions(cmds')) = NRev + 1
        /\ RevX /\ RevY /\ RevZ =>
             Positions(cmds') =
               <<Position(last_x, last_y, last_z, backlash_compensation_x',
                          backlash_compensation_y, backlash_compensation_z,
                          z_correction'),
                 Position(last_x, last_y, last_z, backlash_compensation_x',
                          backlash_compensation_y', backlash_compensation_z,
                          z_correction'),
                 Position(last_x, last_y, last_z, backlash_compensation_x',
                          backlash_compensation_y', backlash_compensation_z',
                          z_correction'),
                 Position(X', Y', Z', backlash_compensation_x',
                          backlash_compensation_y', backlash_compensation_z',
                          z_correction')>>
      ]_vars

\* the compensation offset of an axis moves only with a reversal of the axis
OffsetFollowsReversal(comp, compNext, rev) ==
    compNext # comp => Digested /\ Matched(line') /\ rev

\* C3 as stated: each compensation offset is 0 or the configured backlash
\* magnitude, and changes only in a move that reverses its axis.
C3_OffsetZeroOrBacklash ==
    [][/\ backlash_compensation_x' \in {0, Abs(backlashX)}
       /\ backlash_compensation_y' \in {0, Abs(backlashY)}
       /\ backlash_compensation_z' \in {0, Abs(backlashZ)}
       /\ OffsetFollowsReversal(backlash_compensation_x, backlash_compensation_x', RevX)
       /\ OffsetFollowsReversal(backlash_compensation_y, backlash_compensation_y', RevY)
       /\ OffsetFollowsReversal(backlash_compensation_z, backlash_compensation_z', RevZ)
      ]_vars

\* C3 amended: each compensation offset is 0 or the negative of the
\* configured backlash, and changes only in a move that reverses its axis
\* (not in a move that keeps the direction, a move within epsilon, or a
\* line that is no move).
C3_OffsetZeroOrMinusBacklash ==
    [][/\ backlash_compensation_x' \in {0, -backlashX}
       /\ backlash_compensation_y' \in {0, -backlashY}
       /\ backlash_compensation_z' \in {0, -backlashZ}
       /\ OffsetFollowsReversal(backlash_compensation_x, backlash_compensation_x', RevX)
       /\ OffsetFollowsReversal(backlash_compensation_y, backlash_compensation_y', RevY)
       /\ OffsetFollowsReversal(backlash_compensation_z, backlash_compensation_z', RevZ)
      ]_vars

\* an offset taken at a reversal is still there after a later line that is
\* no move
C3_Witness ==
    /\ pc = "reading"
    /\ line.k = "G20"
    /\ backlashX # 0
    /\ backlash_compensation_x = -backlashX

\* C4: blank and comment lines return nothing; the first line that is
\* neither returns '^DF' first, no later line does, and the list never
\* holds '^DF' twice.
C4_ResetOnFirstNonTrivialLine ==
    [][Digested =>
        /\ line'.k \in {"", "("} => cmds' = <<>>
        /\ line'.k \notin {"", "("} /\ pc' = "reading" =>
             (outputCommands.df = 0 <=> (cmds' # <<>> /\ cmds'[1] = DF))
        /\ outputCommands'.df <= 1
      ]_vars

\* C5: a line with no word for an axis leaves the tracked value of that
\* axis as it was.
C5_AbsentAxisUnchanged ==
    [][Digested =>
        /\ ~HasWord(line', "X") => X' = X
        /\ ~HasWord(line', "Y") => Y' = Y
        /\ ~HasWord(line', "Z") => Z' = Z
      ]_vars

\* a move without an X word was made with X away from zero
C5_Witness ==
    /\ pc = "reading"
    /\ Matched(line)
    /\ ~HasWord(line, "X")
    /\ HasWord(line, "Y")
    /\ X # 0
    /\ Y # 0

\* C6: a move returns one speed+feed command when its mode differs from the
\* mode of the last one emitted and none otherwise, and every position
\* command of the move comes after it.
C6_SpeedFeedOncePerModeChange ==
    [][Digested /\ Matched(line') =>
        /\ Len(SelectSeq(cmds', IsSpeedFeed)) = (IF speedmode # line'.mode THEN 1 ELSE 0)
        /\ \A i, j \in 1..Len(cmds') :
              IsSpeedFeed(cmds'[i]) /\ IsPosition(cmds'[j]) => i < j
      ]_vars

\* C7: a line of no recognized form returns no command of its own (on the
\* first call the reset alone), raises nothing and leaves the tracker and
\* the backlash state as they were.
C7_UnrecognizedIgnored ==
    [][Digested /\ line'.k = "other" =>
        /\ pc' = "reading"
        /\ cmds' = (IF isFirstCommand THEN <<DF>> ELSE <<>>)
        /\ tracker' = tracker
        /\ backlashState' = backlashState
      ]_vars

\* an unrecognized line came after a move and a feed rate
C7_Witness ==
    /\ pc = "reading"
    /\ line.k = "other"
    /\ cmds = <<>>
    /\ speedmode # "None"
    /\ feedrate # 0

\* the move grammar: a separator, then an X word, a Y word and a Z word,
\* each optional, at least one, in that order, and nothing else
WellFormedMove(l) ==
    /\ l.sp
    /\ l.words # <<>>
    /\ \A i \in 1..Len(l.words) : l.words[i][1] \in {"X", "Y", "Z"}
    /\ \A i, j \in 1..Len(l.words) :
          i < j => <<l.words[i][1], l.words[j][1]>> \in {<<"X", "Y">>, <<"X", "Z">>, <<"Y", "Z">>}

\* C8: a G00/G01 line outside the move grammar is an error for that line:
\* it returns no position command, leaves the tracker and the backlash
\* state as they were, and what earlier lines returned is in the output
\* file.
C8_MalformedMoveFailsLocally ==
    [][Digested /\ line'.k = "move" /\ ~WellFormedMove(line') =>
        /\ pc' = "raised"
        /\ Positions(cmds') = <<>>
        /\ tracker' = tracker
        /\ backlashState' = backlashState
        /\ outfile' = outputCommands.n
      ]_vars

\* a move was made over the height grid
GridMoveDone ==
    /\ nLines > 0
    /\ pc = "reading"
    /\ Matched(line)
    /\ levelingData # <<>>

\* the x of grid line i and the y of grid line j, counted from 0
GridX(i) == Pt(levelingData, i, 0)[1]

GridY(j) == Pt(levelingData, 0, j)[2]

\* the heights at the corners of cell (i, j)
Corners(i, j) ==
    {Pt(levelingData, i, j)[3], Pt(levelingData, i + 1, j)[3],
     Pt(levelingData, i, j + 1)[3], Pt(levelingData, i + 1, j + 1)[3]}

\* C9: a point before the first or after the last grid line in x or y is
\* looked up in the nearest cell (the first cell below, the last above),
\* and the height found lies between the heights of that cell's corners.
C9_OutOfRangeClamped ==
    GridMoveDone =>
        LET n == Len(levelingData[1])
            c == GridCell(levelingData, X, Y)
            h == FNeg(z_correction)
        IN  /\ X < GridX(0) => c[1] = 0
            /\ X > GridX(n - 1) => c[1] = n - 2
            /\ Y < GridY(0) => c[2] = 0
            /\ Y > GridY(n - 1) => c[2] = n - 2
            /\ (X < GridX(0) \/ X > GridX(n - 1) \/ Y < GridY(0) \/ Y > GridY(n - 1)) =>
                 /\ \E lo \in Corners(c[1], c[2]) : FLeq(FInt(lo), h)
                 /\ \E hi \in Corners(c[1], c[2]) : FLeq(h, FInt(hi))

\* C10: at a grid vertex the z correction is the negative of the height
\* stored there, also on the last row and column; at the middle of a square
\* cell it is the negative of the mean of the four corner heights.
C10_VertexAndMidpointExact ==
    GridMoveDone =>
        LET n == Len(levelingData[1])
        IN  \A i, j \in 0..(n - 1) :
            /\ X = GridX(i) /\ Y = GridY(j) =>
                 z_correction = FInt(-Pt(levelingData, i, j)[3])
            /\ /\ i < n - 1 /\ j < n - 1
               /\ GridX(i + 1) - GridX(i) = GridY(j + 1) - GridY(j)
               /\ 2 * X = GridX(i) + GridX(i + 1)
               /\ 2 * Y = GridY(j) + GridY(j + 1)
               => z_correction =
                    Frac(-(Pt(levelingData, i, j)[3] + Pt(levelingData, i + 1, j)[3]
                           + Pt(levelingData, i, j + 1)[3]
                           + Pt(levelingData, i + 1, j + 1)[3]), 4)

\* a move to the last vertex of a 3 x 3 grid that is not flat
C10_Witness ==
    /\ GridMoveDone
    /\ Len(levelingData) = 3
    /\ X = GridX(2) /\ Y = GridY(2)
    /\ z_correction = FInt(-Pt(levelingData, 2, 2)[3])
    /\ z_correction # FInt(0)

\* the plane fit is the correction in use
PlaneInUse == levelingData = <<>> /\ manualLevelingPoints # <<>>
              /\ Len(manualLevelingPoints) >= 3

\* the first three manual leveling points lie on one line in (x, y): the z
\* component of the normal is zero
Collinear ==
    LET p1 == manualLevelingPoints[1]
        p2 == manualLevelingPoints[2]
        p3 == manualLevelingPoints[3]
    IN  (p3[1] - p1[1]) * (p2[2] - p1[2]) - (p3[2] - p1[2]) * (p2[1] - p1[1]) = 0

\* C11: with the three plane points collinear in (x, y) a move fails in the
\* correction lookup: the call raises and returns no command, so no position
\* command with a corrupted Z is emitted; the tracked point is not taken as
\* the last commanded one.
C11_CollinearPlaneFails ==
    [][Digested /\ Matched(line') /\ PlaneInUse /\ Collinear =>
        /\ pc' = "raised"
        /\ cmds' = <<>>
        /\ outputCommands' = outputCommands
        /\ <<last_x', last_y', last_z'>> = <<last_x, last_y, last_z>>
      ]_vars

\* a move was tried over three collinear plane points
C11_Witness ==
    /\ PlaneInUse /\ Collinear
    /\ Matched(line)
    /\ pc = "raised"
    /\ X # 0

\* the position command last emitted before the call: the last commanded
\* point with the offsets and the correction of that time
Preceding ==
    Position(last_x, last_y, last_z, backlash_compensation_x,
             backlash_compensation_y, backlash_compensation_z, z_correction)

\* the reversing axes of the move, in the order of the code
RevAxes ==
    (IF RevX THEN <<"X">> ELSE <<>>) \o (IF RevY THEN <<"Y">> ELSE <<>>)
    \o (IF RevZ THEN <<"Z">> ELSE <<>>)

\* position command c with the coordinate of axis a moved by d steps
ShiftAxis(c, a, d) ==
    [c EXCEPT !.x = IF a = "X" THEN @ + d ELSE @,
              !.y = IF a = "Y" THEN @ + d ELSE @,
              !.z = IF a = "Z" THEN @ + d ELSE @]

\* the change of the compensation offset of axis a in the move
OffsetChange(a) ==
    CASE a = "X" -> backlash_compensation_x' - backlash_compensation_x
      [] a = "Y" -> backlash_compensation_y' - backlash_compensation_y
      [] a = "Z" -> backlash_compensation_z' - backlash_compensation_z

\* C20: each extra command of a reversing move equals the position command
\* before it (the last of the previous move, or the extra command of the
\* axis before) but for the change of the reversing axis's offset, with or
\* without a surface correction.
C20_ExtraAtPrecedingPosition ==
    [][Digested /\ Matched(line') /\ NRev > 0 =>
        /\ pc' = "reading"
        /\ LET P == Positions(cmds')
           IN  /\ Len(P) = NRev + 1
               /\ \A k \in 1..NRev :
                     P[k] = ShiftAxis(IF k = 1 THEN Preceding ELSE P[k - 1],
                                      RevAxes[k], OffsetChange(RevAxes[k]))
      ]_vars

\* a turn of the key loop was taken (the keys are counted)
Keyed == nKeys' = nKeys + 1

\* the new zero is the pose at which the turn began
ZeroSetHere ==
    /\ hasZeroBeenSet'
    /\ xy_zero' = <<ctl_x, ctl_y>>
    /\ z_offset' = z_offset + ctl_z
    /\ ctl_z' = 0

\* C14: 'q' ends run() as done, at once when the zero has been set, else
\* after the question, the zero being set on a yes answer only; Esc and
\* Ctrl-C end it as aborted with exitRequested set; every other key leaves
\* the controller jogging.
C14_KeyLoopOutcomes ==
    [][Keyed =>
        /\ key' = Plain("q") =>
              /\ runPc' = "Done"
              /\ ~exitRequested'
              /\ hasZeroBeenSet => answer' = "" /\ sent' = <<>> /\ xy_zero' = xy_zero
              /\ ~hasZeroBeenSet /\ answer' \in {"y", "Y"} => ZeroSetHere
              /\ ~hasZeroBeenSet /\ answer' \notin {"y", "Y"} =>
                    ~hasZeroBeenSet' /\ sent' = <<>>
        /\ key' \in {Plain("ESC"), Plain("ETX")} =>
              runPc' = "Aborted" /\ exitRequested'
        /\ key' \notin {Plain("q"), Plain("ESC"), Plain("ETX")} =>
              runPc' = "Jogging" /\ ~exitRequested'
      ]_vars

\* C15: once a write to the device has failed the connection stays marked
\* lost, the controller is out of its key loop, and no further move command
\* is handed to the device.
C15_LostConnectionStops ==
    [][/\ ~connected => ~connected'
       /\ ~connected' => runPc' # "Jogging"
       /\ ~connected /\ Keyed => Positions(sent') = <<>>
      ]_vars

\* the pose is on the table
OnTable(px, py) == px >= 0 /\ px <= X_MAX /\ py >= 0 /\ py <= Y_MAX

\* C17: every position command sent carries x in [0, X_MAX] and y in
\* [0, Y_MAX], the tracked x and y are within those bounds after each
\* operation, and a jog past a limit leaves the axis at the limit.
C17_PoseStaysOnTable ==
    [][/\ \A i \in 1..Len(sent') : IsPosition(sent'[i]) => OnTable(sent'[i].x, sent'[i].y)
       /\ OnTable(ctl_x', ctl_y')
       /\ key' = Plain("d") /\ runPc = "Jogging" /\ ctl_x + XY_INCREMENTS_LARGE > X_MAX
             => ctl_x' = X_MAX
       /\ key' = Plain("a") /\ runPc = "Jogging" /\ ctl_x - XY_INCREMENTS_LARGE < 0
             => ctl_x' = 0
       /\ key' = Plain("w") /\ runPc = "Jogging" /\ ctl_y + XY_INCREMENTS_LARGE > Y_MAX
             => ctl_y' = Y_MAX
       /\ key' = Plain("s") /\ runPc = "Jogging" /\ ctl_y - XY_INCREMENTS_LARGE < 0
             => ctl_y' = 0
      ]_vars

\* a jog to the far corner of the table, the last step past the limits
C17_Witness ==
    /\ runPc = "Jogging"
    /\ ctl_x = X_MAX /\ ctl_y = Y_MAX
    /\ ctl_last = <<X_MAX, Y_MAX, 0>>
    /\ sent = <<[op |-> "Z", x |-> X_MAX, y |-> Y_MAX, z |-> 0, mc |-> FALSE]>>

\* the turn calls setZeroHere: 'z', 'm' before a zero was set, 'q' answered
\* yes before a zero was set
CallsSetZeroHere ==
    \/ key' = Plain("z")
    \/ key' = Plain("m") /\ ~hasZeroBeenSet
    \/ key' = Plain("q") /\ ~hasZeroBeenSet /\ answer' \in {"y", "Y"}

\* C18: setZeroHere at pose (x, y, z) sets xy_zero to (x, y) and
\* hasZeroBeenSet, discards the manual leveling points, adds z to z_offset
\* and resets z to 0, and sends the one Z-origin offset command with the
\* new z_offset; x and y stay and no position command is sent.
C18_SetZeroHereEffect ==
    [][Keyed /\ CallsSetZeroHere =>
        /\ xy_zero' = <<ctl_x, ctl_y>>
        /\ hasZeroBeenSet'
        /\ manual_leveling_points' = <<>>
        /\ z_offset' = z_offset + ctl_z
        /\ ctl_z' = 0
        /\ z_offset' + ctl_z' = z_offset + ctl_z
        /\ sent' = <<ZeroOffset(z_offset')>>
        /\ ctl_x' = ctl_x /\ ctl_y' = ctl_y
        /\ Positions(sent') = <<>>
      ]_vars

\* the zero was set away from the origin and from the default z offset
C18_Witness ==
    /\ runPc = "Jogging"
    /\ key = Plain("z")
    /\ hasZeroBeenSet
    /\ xy_zero # <<0, 0>>
    /\ xy_zero = <<ctl_x, ctl_y>>
    /\ z_offset # Z_DEFAULT_OFFSET
    /\ ctl_z = 0
    /\ sent = <<ZeroOffset(z_offset)>>

\* getAutolevelingData was called in this step
ScanCalled == scanPc = "idle" /\ scanPc' # "idle"

\* C12: a scan with steps >= 0 over two captured points returns a grid of
\* (steps + 1) x (steps + 1) vertices whose heights are taken relative to
\* the first one, so that the first height is 0; with steps = 0 it is the
\* single vertex of height 0.
C12_ScanGridRebased ==
    scanPc # "idle" /\ microscope_leveling_startpoint # <<>>
                   /\ microscope_leveling_endpoint # <<>> =>
        /\ scanPc = "returned"
        /\ scanResult # <<>>
        /\ Len(scanResult[1]) = scanSteps + 1
        /\ \A i \in 1..(scanSteps + 1) : Len(scanResult[1][i]) = scanSteps + 1
        /\ scanResult[1][1][1][3] = 0

\* C13: with the start point or the end point not captured the scan sends
\* no command, takes no sample, raises nothing and returns None; the pose
\* stays.
C13_NoScanWithoutPoints ==
    [][ScanCalled /\ (microscope_leveling_startpoint = <<>>
                      \/ microscope_leveling_endpoint = <<>>) =>
        /\ scanPc' = "returned"
        /\ scanResult' = <<>>
        /\ sent' = <<>>
        /\ sampled' = 0
        /\ <<ctl_x', ctl_y', ctl_z', ctl_last'>> = <<ctl_x, ctl_y, ctl_z, ctl_last>>
      ]_vars

\* the scan was asked for with the start point captured and the end point
\* not
C13_Witness ==
    /\ scanPc = "returned"
    /\ microscope_leveling_startpoint # <<>>
    /\ microscope_leveling_endpoint = <<>>
    /\ scanResult = <<>>
    /\ scanSteps > 0

\* C19: in a grid the scan returns, x grows with the first index and y
\* with the second.
C19_ScanGridIncreasing ==
    scanPc = "returned" /\ scanResult # <<>> =>
        LET g == scanResult[1]
            n == Len(g)
        IN  /\ \A i \in 1..(n - 1), j \in 1..n : g[i][j][1] < g[i + 1][j][1]
            /\ \A i \in 1..n, j \in 1..(n - 1) : g[i][j][2] < g[i][j + 1][2]

\* a read of the capture device gave no frame
ReadGaveNoFrame == loopPc = "raised"

\* C16: once endLoop has set endLoopRequest the frame loop, unless a read
\* gives it no frame, comes to see it, releases the capture device and ends;
\* it sees it holding the lock, and reads no frame afterwards; endLoop
\* returns only when the loop thread has ended; a call of getFocusValue
\* gets the lock and returns.
C16_FrameLoopShutdown ==
    /\ (endLoopRequest /\ loopPc \in {"read", "acquire", "held"})
          ~> ((loopPc = "done" /\ ~vidcapOpened) \/ ReadGaveNoFrame)
    /\ [][loopPc # "done" /\ loopPc' = "done" =>
            threadlock = "loop" /\ endLoopRequest]_vars
    /\ [][loopPc = "done" =>
            loopPc' = "done" /\ frames' = frames
            /\ smoothed_laplacian_variance' = smoothed_laplacian_variance]_vars
    /\ [](micPc = "ended" => loopPc \in {"returned", "done", "raised"})
    /\ (micPc = "gfv_acquire" ~> micPc = "started")

\* endLoop has returned after a loop that read frames, gave a focus value
\* to getFocusValue and released the device on the request
C16_Witness ==
    /\ micPc = "ended"
    /\ loopPc = "done"
    /\ endLoopRequest
    /\ ~vidcapOpened
    /\ mic_connected
    /\ frames > 0
    /\ nSamples > 0
    /\ gotFocus # <<0, 1>>

\* the key loop read 'm' in this step
CapturesLevelingPoint == Keyed /\ key' = Plain("m")

\* C23: the list of manual leveling points is absent, or the zero has been
\* set, the list has at least two entries and the first is the zero
\* (xy_zero, 0). Key 'm' with the zero not set sets the zero as key 'z' does
\* and records no point; with the zero set it appends the pose (x, y, z) to
\* the list, begun with the zero if it was absent.
C23_ManualLevelingPoints ==
    /\ [](manual_leveling_points # <<>> =>
            /\ hasZeroBeenSet
            /\ Len(manual_leveling_points) >= 2
            /\ manual_leveling_points[1] = <<xy_zero[1], xy_zero[2], 0>>)
    /\ [][CapturesLevelingPoint =>
            IF ~hasZeroBeenSet
            THEN /\ manual_leveling_points' = <<>>
                 /\ hasZeroBeenSet'
                 /\ xy_zero' = <<ctl_x, ctl_y>>
                 /\ z_offset' = z_offset + ctl_z
                 /\ ctl_z' = 0
            ELSE /\ manual_leveling_points' =
                        Append(IF manual_leveling_points = <<>>
                               THEN << <<xy_zero[1], xy_zero[2], 0>> >>
                               ELSE manual_leveling_points,
                               <<ctl_x, ctl_y, ctl_z>>)
                 /\ sent' = <<>>
                 /\ UNCHANGED <<ctl_x, ctl_y, ctl_z, z_offset, xy_zero,
                                hasZeroBeenSet>>
       ]_vars

\* the zero was set away from the origin, then a point captured after a jog
C23_Witness ==
    /\ key = Plain("m")
    /\ hasZeroBeenSet
    /\ Len(manual_leveling_points) = 2
    /\ manual_leveling_points[1] # manual_leveling_points[2]

\* the line digested is a feed-rate directive with its number
IsFeedDirective(l) == l.k \in {"G01 F", "F"} /\ l.num # <<>>

\* the line digested is a units directive
IsUnitsDirective(l) == l.k \in {"G20", "G21"}

\* C24: a feed-rate directive and a units directive return no command of
\* their own (on the first call the reset alone) and change the feed rate,
\* respectively the conversion factor, and nothing else, whatever the speed
\* mode; a move in the mode already set returns no speed+feed command, and
\* a move that changes the mode returns the speed+feed command of
\* feedrate x factor x feedspeedfactor / 60 to two decimals in cutting mode,
\* of 16.00 in rapid mode.
C24_FeedAndUnitsDeferred ==
    [][Digested =>
        /\ IsFeedDirective(line') =>
              /\ pc' = "reading"
              /\ cmds' = (IF isFirstCommand THEN <<DF>> ELSE <<>>)
              /\ feedrate' = line'.num[1]
              /\ <<inputConversionFactor', X', Y', Z', speedmode'>>
                    = <<inputConversionFactor, X, Y, Z, speedmode>>
              /\ backlashState' = backlashState
        /\ IsUnitsDirective(line') =>
              /\ pc' = "reading"
              /\ cmds' = (IF isFirstCommand THEN <<DF>> ELSE <<>>)
              /\ inputConversionFactor' =
                    (IF line'.k = "G20" THEN FactorInch ELSE FactorMm)
              /\ <<feedrate', X', Y', Z', speedmode'>> = <<feedrate, X, Y, Z, speedmode>>
              /\ backlashState' = backlashState
        /\ Matched(line') =>
              IF speedmode = line'.mode
              THEN SelectSeq(cmds', IsSpeedFeed) = <<>>
              ELSE SelectSeq(cmds', IsSpeedFeed) =
                     <<SpeedFeed(IF line'.mode = "0" THEN FastFeed
                                 ELSE RoundHalfEven(feedrate * inputConversionFactor
                                                        * feedspeedfactor * 100,
                                                    FactorMm * 60))>>
      ]_vars

\* r is the first index, from 0, at which vals is greatest
IsFirstMax(vals, r) ==
    /\ r \in 0..(Len(vals) - 1)
    /\ \A m \in 1..Len(vals) : vals[m] <= vals[r + 1]
    /\ \A m \in 1..r : vals[m] < vals[r + 1]

\* the commands of a scan over n x n vertices, after the move to the start
\* point, fall into n * n runs of heightpoints + 2: the k-th of vertex v
CellCommand(v, k) == sent[1 + (v - 1) * (heightpoints + 2) + k]

\* C21: a scan called with both points captured visits all the
\* (steps + 1) x (steps + 1) vertices, (i, j) in the order of i, then j; at
\* each it moves above the starting height, then sends heightpoints position
\* commands of strictly decreasing z, a focus value taken at each, then moves
\* to the starting height less the first index of the greatest value, which
\* is the height recorded for the vertex, before the next vertex begins.
C21_ScanProbesEveryVertex ==
    scanPc # "idle" /\ microscope_leveling_startpoint # <<>>
                   /\ microscope_leveling_endpoint # <<>> =>
        LET n == scanSteps + 1
            start == microscope_leveling_startpoint[1]
        IN  /\ scanPc = "returned"
            /\ scanResult # <<>>
            /\ Len(sent) = 1 + n * n * (heightpoints + 2)
            /\ sampled = n * n * heightpoints
            /\ Len(focusSamples) = n * n
            /\ \A v \in 1..(n * n) :
                  LET i == (v - 1) \div n
                      j == (v - 1) % n
                      cell == scanResult[1][i + 1][j + 1]
                  IN  /\ Len(focusSamples[v]) = heightpoints
                      /\ \A k \in 1..(heightpoints + 2) :
                            /\ IsPosition(CellCommand(v, k))
                            /\ CellCommand(v, k).x = start[1] + cell[1]
                            /\ CellCommand(v, k).y = start[2] + cell[2]
                      /\ CellCommand(v, 1).z > CellCommand(v, 2).z
                      /\ \A k \in 2..heightpoints :
                            CellCommand(v, k + 1).z < CellCommand(v, k).z
                      /\ IsFirstMax(focusSamples[v],
                                    CellCommand(v, 2).z
                                        - CellCommand(v, heightpoints + 2).z)
                      /\ \E r, r0 \in 0..(heightpoints - 1) :
                            /\ IsFirstMax(focusSamples[v], r)
                            /\ IsFirstMax(focusSamples[1], r0)
                            /\ cell[3] = r - r0

\* the main flow is over: endLoop returned, or sys.exit left main
MainFlowOver == micPc \in {"ended", "exited"}

\* C22: when the main flow is over after the frame loop was started,
\* endLoop has asked the loop to end and the loop thread has ended.
C22_LoopEndedWithMain ==
    MainFlowOver /\ loopPc # "new" =>
        /\ endLoopRequest
        /\ loopPc \in {"returned", "done", "raised"}

====
